---- MODULE Spec2Model ----
(***************************************************************************)
(* The skill_registry program (programs/skill-registry/src/lib.rs): the    *)
(* Marketplace, Agent, Skill and Purchase accounts, the seven instructions *)
(* with the account validation of their #[derive(Accounts)] structs, and   *)
(* the SPL token accounts the purchase moves value between.                *)
(*                                                                         *)
(* An instruction runs on a working copy of the accounts: the account      *)
(* validation, then the handler.  The runtime commits the working copy     *)
(* when the instruction returns Ok and discards it when it returns Err or  *)
(* panics (a failed checked_add(..).unwrap()).                             *)
(***************************************************************************)
EXTENDS Integers, Sequences, FiniteSets, TLC

VARIABLES marketplace, agents, skills, purchases, balances, clock, last

vars == <<marketplace, agents, skills, purchases, balances, clock, last>>

(***************************************************************************)
(* Bounds of the model.                                                    *)
(***************************************************************************)
\* u64::MAX, scaled to 20 bits so that sums of a few prices overflow and
\* price * fee_bps (the u128 product of line 111) stays a TLC integer.
U64_MAX == 1048575
\* The clock service advances this many times at most.
MaxClock == 1
\* Purchase accounts created at most (one per buyer and skill).
MaxPurchases == 2
\* The same, where every wallet buys and rates the one skill.
MaxRatedPurchases == 3
\* Wallets (signers); each owns the token account of the same name.
Keys == {"k1", "k2", "k3"}
\* skill_id strings an instruction is called with.
SkillIds == {"s1", "s2"}
\* The token account the marketplace operator holds for fees.
TREASURY == "treasury"
TokenAccounts == Keys \cup {TREASURY}
\* fee_bps arguments of initialize_marketplace.
FeeBpsInputs == {0, 250, 5000, 5001}
\* price arguments of register_skill and update_skill_price.
PriceInputs == {0, 1, 3, 1000000}
\* rating arguments of rate_skill.
RatingInputs == {0, 1, 4, 5, 6}
\* name.len() of register_agent, and <<name.len(), description.len(),
\* metadata_uri.len()>> of register_skill.
AgentStrings == {<<32, 200>>, <<33, 200>>, <<32, 201>>}
SkillStrings == {<<64, 256, 200>>, <<65, 256, 200>>, <<64, 257, 200>>, <<64, 256, 201>>}
\* Token balances before the first instruction.
InitialBalances == [a \in TokenAccounts |->
    CASE a = "k1" -> 2 [] a = "k2" -> 1000002 [] a = "k3" -> 1 [] OTHER -> 0]
\* The largest integer TLC computes with (price * fee_bps must stay below).
TLC_MAX == 2 * (2^30 - 1) + 1

OK == "Ok"
\* Option::None of a checked_add
None == -1
\* seeds = [b"marketplace"]: the one address a Marketplace account lives at
MARKETPLACE == "marketplace"

(***************************************************************************)
(* The accounts an instruction works on, and what it returns: an error     *)
(* (or Ok), the accounts as it leaves them, the token transfers it invoked.*)
(***************************************************************************)
State == [marketplace |-> marketplace, agents |-> agents, skills |-> skills,
          purchases |-> purchases, balances |-> balances]

Result(err, st, transfers) == [err |-> err, st |-> st, transfers |-> transfers]

\* The runtime: an instruction that fails leaves every account as it was.
Run_without_rollback(st, r) == r
Run(st, r) == IF r.err = OK THEN r ELSE [r EXCEPT !.st = st]

\* u64::checked_add
checked_add_wrapping(a, b) == (a + b) % (U64_MAX + 1)
checked_add(a, b) == IF a + b > U64_MAX THEN None ELSE a + b

(***************************************************************************)
(* initialize_marketplace                                                  *)
(***************************************************************************)
\* #[account(init, seeds = [b"marketplace"])]: the account is created, which
\* fails when the address is occupied.
InitializeMarketplace(st) ==
    IF MARKETPLACE \in DOMAIN st.marketplace
    THEN [err |-> "AccountAlreadyInUse", st |-> st]
    ELSE [err |-> OK,
          st |-> [st EXCEPT !.marketplace = MARKETPLACE :>
                    [authority |-> "", fee_bps |-> 0, total_skills |-> 0,
                     total_purchases |-> 0, total_volume_usdc |-> 0]]]

fee_bps_allowed_any(fee_bps) == TRUE
fee_bps_allowed(fee_bps) == fee_bps <= 5000

initialize_marketplace(st0, authority, fee_bps) ==
    LET acc == InitializeMarketplace(st0)
        st == acc.st
    IN  IF acc.err # OK THEN Result(acc.err, st0, <<>>)
        ELSE IF ~fee_bps_allowed(fee_bps) THEN Result("FeeTooHigh", st, <<>>)
        ELSE Result(OK,
                [st EXCEPT !.marketplace[MARKETPLACE] =
                    [authority |-> authority, fee_bps |-> fee_bps, total_skills |-> 0,
                     total_purchases |-> 0, total_volume_usdc |-> 0]],
                <<>>)

(***************************************************************************)
(* register_agent                                                          *)
(***************************************************************************)
\* #[account(init, seeds = [b"agent", owner.key()])]
agent_init_if_needed(st, owner) == FALSE
agent_in_use(st, owner) == owner \in DOMAIN st.agents

RegisterAgent(st, owner) ==
    IF agent_in_use(st, owner)
    THEN [err |-> "AccountAlreadyInUse", st |-> st]
    ELSE [err |-> OK,
          st |-> [st EXCEPT !.agents = @ @@ (owner :>
                    [owner |-> "", name |-> 0, metadata_uri |-> 0, skills_published |-> 0,
                     skills_sold |-> 0, total_earnings |-> 0, reputation_score |-> 0,
                     total_ratings |-> 0])]]

\* name and metadata_uri are modelled by their lengths
register_agent(st0, owner, name, metadata_uri) ==
    LET acc == RegisterAgent(st0, owner)
        st == acc.st
    IN  IF acc.err # OK THEN Result(acc.err, st0, <<>>)
        ELSE IF ~(name <= 32) THEN Result("NameTooLong", st, <<>>)
        ELSE IF ~(metadata_uri <= 200) THEN Result("UriTooLong", st, <<>>)
        ELSE Result(OK,
                [st EXCEPT !.agents[owner] =
                    [owner |-> owner, name |-> name, metadata_uri |-> metadata_uri,
                     skills_published |-> 0, skills_sold |-> 0, total_earnings |-> 0,
                     reputation_score |-> 0, total_ratings |-> 0]],
                <<>>)

(***************************************************************************)
(* register_skill                                                          *)
(***************************************************************************)
\* The agent and marketplace accounts are the ones their seeds name (an account
\* at another address fails the seeds constraint); both must hold data before
\* the skill account is created.  endpoint_count and auth_type are stored as
\* given and read by no instruction; the model leaves them out.
skill_init_if_needed(st, skill_id) == FALSE
skill_in_use(st, skill_id) == skill_id \in DOMAIN st.skills

RegisterSkill(st, publisher, skill_id) ==
    IF publisher \notin DOMAIN st.agents THEN [err |-> "AccountNotInitialized", st |-> st]
    ELSE IF MARKETPLACE \notin DOMAIN st.marketplace
    THEN [err |-> "AccountNotInitialized", st |-> st]
    ELSE IF skill_in_use(st, skill_id) THEN [err |-> "AccountAlreadyInUse", st |-> st]
    ELSE IF ~(st.agents[publisher].owner = publisher) THEN [err |-> "Unauthorized", st |-> st]
    ELSE [err |-> OK,
          st |-> [st EXCEPT !.skills = @ @@ (skill_id :>
                    [publisher |-> "", agent |-> "", name |-> 0, description |-> 0,
                     price_usdc |-> 0, metadata_uri |-> 0, total_purchases |-> 0,
                     total_revenue |-> 0, avg_rating |-> 0, total_ratings |-> 0,
                     is_active |-> FALSE, updated_at |-> 0])]]

\* line 94: agent.skills_published.checked_add(1)
skills_published_kept(agent) == agent.skills_published
skills_published_add(agent) == checked_add(agent.skills_published, 1)

register_skill(st0, now, publisher, skill_id, name, description, price_usdc, metadata_uri) ==
    LET acc == RegisterSkill(st0, publisher, skill_id)
        st == acc.st
        skills_published == skills_published_add(st.agents[publisher])
        total_skills == checked_add(st.marketplace[MARKETPLACE].total_skills, 1)
    IN  IF acc.err # OK THEN Result(acc.err, st0, <<>>)
        ELSE IF ~(Len(skill_id) <= 64) THEN Result("SkillIdTooLong", st, <<>>)
        ELSE IF ~(name <= 64) THEN Result("NameTooLong", st, <<>>)
        ELSE IF ~(description <= 256) THEN Result("DescriptionTooLong", st, <<>>)
        ELSE IF ~(metadata_uri <= 200) THEN Result("UriTooLong", st, <<>>)
        ELSE IF ~(price_usdc > 0) THEN Result("PriceMustBePositive", st, <<>>)
        ELSE IF skills_published = None \/ total_skills = None THEN Result("Panic", st, <<>>)
        ELSE Result(OK,
                [st EXCEPT
                    !.skills[skill_id] =
                        [publisher |-> publisher, agent |-> publisher, name |-> name,
                         description |-> description, price_usdc |-> price_usdc,
                         metadata_uri |-> metadata_uri, total_purchases |-> 0,
                         total_revenue |-> 0, avg_rating |-> 0, total_ratings |-> 0,
                         is_active |-> TRUE, updated_at |-> now],
                    !.agents[publisher].skills_published = skills_published,
                    !.marketplace[MARKETPLACE].total_skills = total_skills],
                <<>>)

(***************************************************************************)
(* purchase_skill                                                          *)
(***************************************************************************)
\* The SPL token program's transfer, invoked with the buyer as authority: it
\* fails unless the authority owns the source account (the account named after
\* it) and the source holds the amount; a transfer to the source itself moves
\* nothing.
Transfer(source, destination, authority, amount) ==
    [source |-> source, destination |-> destination, authority |-> authority,
     amount |-> amount]

invoke_unchecked(bal, ix) ==
    IF ix.source # ix.authority \/ bal[ix.source] < ix.amount
    THEN [err |-> OK, balances |-> bal]
    ELSE IF ix.source = ix.destination THEN [err |-> OK, balances |-> bal]
    ELSE [err |-> OK,
          balances |-> [bal EXCEPT ![ix.source] = @ - ix.amount,
                                   ![ix.destination] = @ + ix.amount]]
invoke(bal, ix) ==
    IF ix.source # ix.authority THEN [err |-> "OwnerMismatch", balances |-> bal]
    ELSE IF bal[ix.source] < ix.amount THEN [err |-> "InsufficientFunds", balances |-> bal]
    ELSE IF ix.source = ix.destination THEN [err |-> OK, balances |-> bal]
    ELSE [err |-> OK,
          balances |-> [bal EXCEPT ![ix.source] = @ - ix.amount,
                                   ![ix.destination] = @ + ix.amount]]

\* Account validation, in the order the generated code runs it: the accounts
\* that must hold data are loaded, the init account (purchase) is created, and
\* then the constraints of the loaded accounts are checked.
\* skill.is_active, read by the constraint (line 409) and by the handler (line 107)
is_active_ignored(skill) == TRUE
is_active(skill) == skill.is_active

purchase_init_if_needed(st, buyer, sid) == FALSE
purchase_in_use(st, buyer, sid) == <<buyer, sid>> \in DOMAIN st.purchases

PurchaseSkill(st, buyer, sid) ==
    IF MARKETPLACE \notin DOMAIN st.marketplace
    THEN [err |-> "AccountNotInitialized", st |-> st]
    ELSE IF sid \notin DOMAIN st.skills THEN [err |-> "AccountNotInitialized", st |-> st]
    ELSE IF st.skills[sid].publisher \notin DOMAIN st.agents
    THEN [err |-> "AccountNotInitialized", st |-> st]
    ELSE IF purchase_in_use(st, buyer, sid) THEN [err |-> "AccountAlreadyInUse", st |-> st]
    ELSE IF ~is_active(st.skills[sid]) THEN [err |-> "SkillNotActive", st |-> st]
    ELSE [err |-> OK,
          st |-> [st EXCEPT !.purchases = (<<buyer, sid>> :>
                    [buyer |-> "", skill |-> "", price_paid |-> 0, fee_paid |-> 0,
                     rating |-> 0]) @@ @]]

\* lines 111-115: (price as u128 * fee_bps as u128 / 10_000) as u64
fee_rounded_up(price, fee_bps) == (price * fee_bps + 9999) \div 10000
fee(price, fee_bps) == (price * fee_bps) \div 10000

\* line 116: price.checked_sub(fee), None when fee > price
seller_amount_is_price(price, fee_amount) == price
seller_amount(price, fee_amount) == IF fee_amount > price THEN None ELSE price - fee_amount

purchase_skill(st0, buyer, sid, buyer_token_account, seller_token_account, treasury_token_account) ==
    LET acc == PurchaseSkill(st0, buyer, sid)
        st == acc.st
        skill == st.skills[sid]
        seller == skill.publisher
        price == skill.price_usdc
        fee_amount == fee(price, st.marketplace[MARKETPLACE].fee_bps)
        amount == seller_amount(price, fee_amount)
        transfer_to_seller_ix ==
            Transfer(buyer_token_account, seller_token_account, buyer, amount)
        t1 == invoke(st.balances, transfer_to_seller_ix)
        transfer_fee_ix ==
            Transfer(buyer_token_account, treasury_token_account, buyer, fee_amount)
        t2 == invoke(t1.balances, transfer_fee_ix)
        bal == IF fee_amount > 0 THEN t2.balances ELSE t1.balances
        total_purchases == checked_add(skill.total_purchases, 1)
        total_revenue == checked_add(skill.total_revenue, price)
        skills_sold == checked_add(st.agents[seller].skills_sold, 1)
        total_earnings == checked_add(st.agents[seller].total_earnings, amount)
        mp_total_purchases == checked_add(st.marketplace[MARKETPLACE].total_purchases, 1)
        total_volume_usdc == checked_add(st.marketplace[MARKETPLACE].total_volume_usdc, price)
    IN  IF acc.err # OK THEN Result(acc.err, st0, <<>>)
        ELSE IF ~is_active(skill) THEN Result("SkillNotActive", st, <<>>)
        ELSE IF amount = None THEN Result("Panic", st, <<>>)
        ELSE IF t1.err # OK THEN Result(t1.err, st, <<transfer_to_seller_ix>>)
        ELSE IF fee_amount > 0 /\ t2.err # OK
        THEN Result(t2.err, [st EXCEPT !.balances = t1.balances],
                    <<transfer_to_seller_ix, transfer_fee_ix>>)
        ELSE IF \/ total_purchases = None \/ total_revenue = None
                \/ skills_sold = None \/ total_earnings = None
                \/ mp_total_purchases = None \/ total_volume_usdc = None
        THEN Result("Panic", [st EXCEPT !.balances = bal],
                    IF fee_amount > 0 THEN <<transfer_to_seller_ix, transfer_fee_ix>>
                    ELSE <<transfer_to_seller_ix>>)
        ELSE Result(OK,
                [st EXCEPT
                    !.balances = bal,
                    !.purchases[<<buyer, sid>>] =
                        [buyer |-> buyer, skill |-> sid, price_paid |-> price,
                         fee_paid |-> fee_amount, rating |-> 0],
                    !.skills[sid].total_purchases = total_purchases,
                    !.skills[sid].total_revenue = total_revenue,
                    !.agents[seller].skills_sold = skills_sold,
                    !.agents[seller].total_earnings = total_earnings,
                    !.marketplace[MARKETPLACE].total_purchases = mp_total_purchases,
                    !.marketplace[MARKETPLACE].total_volume_usdc = total_volume_usdc],
                IF fee_amount > 0 THEN <<transfer_to_seller_ix, transfer_fee_ix>>
                ELSE <<transfer_to_seller_ix>>)

(***************************************************************************)
(* rate_skill                                                              *)
(***************************************************************************)
\* The purchase account is the one its seeds name for the signer and the skill;
\* it must hold data.  The seller agent is the one the skill's publisher names.
already_rated_never(purchase) == FALSE
already_rated(purchase) == ~(purchase.rating = 0)

RateSkill(st, buyer, sid) ==
    IF <<buyer, sid>> \notin DOMAIN st.purchases
    THEN [err |-> "AccountNotInitialized", st |-> st]
    ELSE IF sid \notin DOMAIN st.skills THEN [err |-> "AccountNotInitialized", st |-> st]
    ELSE IF st.skills[sid].publisher \notin DOMAIN st.agents
    THEN [err |-> "AccountNotInitialized", st |-> st]
    ELSE IF ~(st.purchases[<<buyer, sid>>].buyer = buyer)
    THEN [err |-> "Unauthorized", st |-> st]
    ELSE [err |-> OK, st |-> st]

\* lines 200-203; total_ratings is None when the checked_add fails.  The u64
\* product and sum of line 201 stay far below U64_MAX (avg_rating <= 255 and
\* total_ratings is at most the number of purchases).
skill_rated_by_old_count(skill, rating) ==
    LET total == skill.avg_rating * skill.total_ratings + rating
        total_ratings == checked_add(skill.total_ratings, 1)
    IN  IF total_ratings = None THEN [skill EXCEPT !.total_ratings = None]
        ELSE [skill EXCEPT !.total_ratings = total_ratings,
                           !.avg_rating = IF skill.total_ratings = 0 THEN rating
                                          ELSE (total \div skill.total_ratings) % 256]
skill_rated(skill, rating) ==
    LET total == skill.avg_rating * skill.total_ratings + rating
        total_ratings == checked_add(skill.total_ratings, 1)
    IN  IF total_ratings = None THEN [skill EXCEPT !.total_ratings = None]
        ELSE [skill EXCEPT !.total_ratings = total_ratings,
                           !.avg_rating = (total \div total_ratings) % 256]

\* lines 206-210
agent_rated_by_old_count(agent, rating) ==
    LET agent_total == agent.reputation_score * agent.total_ratings + rating
        total_ratings == checked_add(agent.total_ratings, 1)
    IN  IF total_ratings = None THEN [agent EXCEPT !.total_ratings = None]
        ELSE [agent EXCEPT !.total_ratings = total_ratings,
                           !.reputation_score = IF agent.total_ratings = 0 THEN rating
                                                ELSE (agent_total \div agent.total_ratings) % 256]
agent_rated(agent, rating) ==
    LET agent_total == agent.reputation_score * agent.total_ratings + rating
        total_ratings == checked_add(agent.total_ratings, 1)
    IN  IF total_ratings = None THEN [agent EXCEPT !.total_ratings = None]
        ELSE [agent EXCEPT !.total_ratings = total_ratings,
                           !.reputation_score = (agent_total \div total_ratings) % 256]

\* line 193
rating_allowed_any(rating) == TRUE
rating_allowed(rating) == rating >= 1 /\ rating <= 5

rate_skill(st0, buyer, sid, rating) ==
    LET acc == RateSkill(st0, buyer, sid)
        st == acc.st
        seller == st.skills[sid].publisher
        skill == skill_rated(st.skills[sid], rating)
        agent == agent_rated(st.agents[seller], rating)
    IN  IF acc.err # OK THEN Result(acc.err, st0, <<>>)
        ELSE IF ~rating_allowed(rating) THEN Result("InvalidRating", st, <<>>)
        ELSE IF already_rated(st.purchases[<<buyer, sid>>])
        THEN Result("AlreadyRated", st, <<>>)
        ELSE IF skill.total_ratings = None \/ agent.total_ratings = None
        THEN Result("Panic", [st EXCEPT !.purchases[<<buyer, sid>>].rating = rating], <<>>)
        ELSE Result(OK,
                [st EXCEPT !.purchases[<<buyer, sid>>].rating = rating,
                           !.skills[sid] = skill,
                           !.agents[seller] = agent],
                <<>>)

(***************************************************************************)
(* update_skill_price, deactivate_skill                                    *)
(***************************************************************************)
publisher_constraint_none(skill, publisher) == TRUE
publisher_constraint(skill, publisher) == skill.publisher = publisher

UpdateSkill(st, publisher, sid) ==
    IF sid \notin DOMAIN st.skills THEN [err |-> "AccountNotInitialized", st |-> st]
    ELSE IF ~publisher_constraint(st.skills[sid], publisher)
    THEN [err |-> "Unauthorized", st |-> st]
    ELSE [err |-> OK, st |-> st]

update_skill_price(st0, now, publisher, sid, new_price) ==
    LET acc == UpdateSkill(st0, publisher, sid)
        st == acc.st
    IN  IF acc.err # OK THEN Result(acc.err, st0, <<>>)
        ELSE IF ~(new_price > 0) THEN Result("PriceMustBePositive", st, <<>>)
        ELSE Result(OK,
                [st EXCEPT !.skills[sid].price_usdc = new_price,
                           !.skills[sid].updated_at = now],
                <<>>)

deactivate_skill_once(st0, now, publisher, sid) ==
    LET acc == UpdateSkill(st0, publisher, sid)
        st == acc.st
    IN  IF acc.err # OK THEN Result(acc.err, st0, <<>>)
        ELSE IF ~st.skills[sid].is_active THEN Result("SkillNotActive", st, <<>>)
        ELSE Result(OK,
                [st EXCEPT !.skills[sid].is_active = FALSE,
                           !.skills[sid].updated_at = now],
                <<>>)

deactivate_skill(st0, now, publisher, sid) ==
    LET acc == UpdateSkill(st0, publisher, sid)
        st == acc.st
    IN  IF acc.err # OK THEN Result(acc.err, st0, <<>>)
        ELSE Result(OK,
                [st EXCEPT !.skills[sid].is_active = FALSE,
                           !.skills[sid].updated_at = now],
                <<>>)

(***************************************************************************)
(* The state machine: one action per instruction.  Every call, failed or   *)
(* not, is recorded in last (with the number of token transfers it         *)
(* invoked); only an Ok result changes the accounts.                       *)
(***************************************************************************)
Init ==
    /\ marketplace = [m \in {} |-> 0]
    /\ agents = [k \in {} |-> 0]
    /\ skills = [s \in {} |-> 0]
    /\ purchases = [p \in {} |-> 0]
    /\ balances = InitialBalances
    /\ clock = 0
    /\ last = [op |-> "none", err |-> OK, invoked |-> 0]

\* The runtime commits what the instruction returns.
Commit(op, r) ==
    /\ marketplace' = r.st.marketplace
    /\ agents' = r.st.agents
    /\ skills' = r.st.skills
    /\ purchases' = r.st.purchases
    /\ balances' = r.st.balances
    /\ last' = [op |-> op, err |-> r.err, invoked |-> Len(r.transfers)]

\* Prices whose u128 product with the fee rate TLC can compute.
Representable(price) ==
    IF MARKETPLACE \in DOMAIN marketplace
    THEN price <= TLC_MAX \div (marketplace[MARKETPLACE].fee_bps + 1)
    ELSE TRUE

\* The token accounts a buyer passes (source, seller's, treasury's): the ones
\* meant, its own account in place of both destinations, and a source it does
\* not own.
PurchaseAccounts(buyer, sid) ==
    LET seller == IF sid \in DOMAIN skills THEN skills[sid].publisher ELSE buyer
    IN  {<<buyer, seller, TREASURY>>, <<buyer, buyer, buyer>>, <<seller, seller, TREASURY>>}

CallInitializeMarketplace(authority, fee_bps) ==
    /\ Commit("initialize_marketplace",
              Run(State, initialize_marketplace(State, authority, fee_bps)))
    /\ UNCHANGED clock

CallRegisterAgent(owner, strings) ==
    /\ Commit("register_agent",
              Run(State, register_agent(State, owner, strings[1], strings[2])))
    /\ UNCHANGED clock

CallRegisterSkill(publisher, skill_id, strings, price_usdc) ==
    /\ Representable(price_usdc)
    /\ Commit("register_skill",
              Run(State, register_skill(State, clock, publisher, skill_id, strings[1],
                                        strings[2], price_usdc, strings[3])))
    /\ UNCHANGED clock

CallPurchaseSkill(buyer, sid, max_purchases) ==
    /\ <<buyer, sid>> \notin DOMAIN purchases => Cardinality(DOMAIN purchases) < max_purchases
    /\ \E accounts \in PurchaseAccounts(buyer, sid) :
          Commit("purchase_skill",
                 Run(State, purchase_skill(State, buyer, sid, accounts[1], accounts[2],
                                           accounts[3])))
    /\ UNCHANGED clock

CallRateSkill(buyer, sid, rating) ==
    /\ Commit("rate_skill", Run(State, rate_skill(State, buyer, sid, rating)))
    /\ UNCHANGED clock

CallUpdateSkillPrice(publisher, sid, new_price) ==
    /\ Representable(new_price)
    /\ Commit("update_skill_price",
              Run(State, update_skill_price(State, clock, publisher, sid, new_price)))
    /\ UNCHANGED clock

CallDeactivateSkill(publisher, sid) ==
    /\ Commit("deactivate_skill", Run(State, deactivate_skill(State, clock, publisher, sid)))
    /\ UNCHANGED clock

\* Clock::get(): the cluster's time moves on between instructions.
Tick ==
    /\ clock < MaxClock
    /\ clock' = clock + 1
    /\ last' = [op |-> "tick", err |-> OK, invoked |-> 0]
    /\ UNCHANGED <<marketplace, agents, skills, purchases, balances>>

\* The instructions called with arguments from the sets of in.
NextOver(in) ==
    \/ \E authority \in in.authorities, fee_bps \in in.fee_bps :
            CallInitializeMarketplace(authority, fee_bps)
    \/ \E owner \in in.owners, strings \in in.agent_strings : CallRegisterAgent(owner, strings)
    \/ \E publisher \in in.publishers, skill_id \in in.skill_ids,
          strings \in in.skill_strings, price_usdc \in in.prices :
            CallRegisterSkill(publisher, skill_id, strings, price_usdc)
    \/ \E buyer \in in.buyers, sid \in in.skill_ids :
            CallPurchaseSkill(buyer, sid, in.max_purchases)
    \/ \E buyer \in in.buyers, sid \in in.skill_ids, rating \in in.ratings :
            CallRateSkill(buyer, sid, rating)
    \/ \E publisher \in in.publishers, sid \in in.skill_ids, new_price \in in.new_prices :
            CallUpdateSkillPrice(publisher, sid, new_price)
    \/ \E publisher \in in.publishers, sid \in in.skill_ids : CallDeactivateSkill(publisher, sid)
    \/ Tick

MarketInputs ==
    [authorities |-> {"k1"}, fee_bps |-> {250, 5000, 5001},
     owners |-> {"k1", "k2"}, agent_strings |-> AgentStrings,
     publishers |-> Keys, skill_ids |-> {"s1"}, skill_strings |-> SkillStrings,
     prices |-> {0, 1, 1000000}, new_prices |-> {0, 3},
     buyers |-> Keys, ratings |-> {0, 5, 6}, max_purchases |-> MaxPurchases]

Next == NextOver(MarketInputs)

Spec == Init /\ [][Next]_vars

\* One seller and one skill, bought and rated by every wallet.
RatingInputs3 ==
    [authorities |-> {"k1"}, fee_bps |-> {250},
     owners |-> {"k1"}, agent_strings |-> {<<32, 200>>},
     publishers |-> {"k1"}, skill_ids |-> {"s1"}, skill_strings |-> {<<64, 256, 200>>},
     prices |-> {1}, new_prices |-> {3},
     buyers |-> Keys, ratings |-> RatingInputs, max_purchases |-> MaxRatedPurchases]

NextRatings == NextOver(RatingInputs3)

SpecRatings == Init /\ [][NextRatings]_vars

\* Two publishers with a skill each, bought at the price registered and at the
\* updated one.
MaxCatalogPurchases == 2

CatalogInputs ==
    [authorities |-> {"k1"}, fee_bps |-> {5000},
     owners |-> {"k1", "k2"}, agent_strings |-> {<<32, 200>>},
     publishers |-> {"k1", "k2"}, skill_ids |-> SkillIds,
     skill_strings |-> {<<64, 256, 200>>},
     prices |-> {1}, new_prices |-> {3},
     buyers |-> {"k2"}, ratings |-> {5, 6}, max_purchases |-> MaxCatalogPurchases]

NextCatalog == NextOver(CatalogInputs)

SpecCatalog == Init /\ [][NextCatalog]_vars

(***************************************************************************)
(* What the claims are stated with.                                        *)
(***************************************************************************)
\* q = floor(n / d), stated without division
IsFloor(q, n, d) == q * d <= n /\ n < (q + 1) * d

Called(op, err) == last.op = op /\ last.err = err

\* Every triple of token accounts a buyer can pass.
AnyAccounts == TokenAccounts \X TokenAccounts \X TokenAccounts

\* What a purchase_skill call returns in the current state, before and after
\* the runtime has discarded a failed instruction's writes.
PurchaseReturn(buyer, sid, accounts) ==
    purchase_skill(State, buyer, sid, accounts[1], accounts[2], accounts[3])
PurchaseOutcome(buyer, sid, accounts) == Run(State, PurchaseReturn(buyer, sid, accounts))

\* The step is a successful purchase_skill / rate_skill.
Purchased == last'.op = "purchase_skill" /\ last'.err = OK
Rated == last'.op = "rate_skill" /\ last'.err = OK

(***************************************************************************)
(* C1                                                                      *)
(***************************************************************************)
PurchaseSplitsPrice ==
    Purchased =>
        \E pair \in DOMAIN purchases' \ DOMAIN purchases :
            LET sid == pair[2]
                price == skills[sid].price_usdc
                fee_bps == marketplace[MARKETPLACE].fee_bps
                seller == skills[sid].publisher
                paid == purchases'[pair]
                seller_share == agents'[seller].total_earnings - agents[seller].total_earnings
            IN  /\ price > 0
                /\ fee_bps \in 0..5000
                /\ IsFloor(paid.fee_paid, price * fee_bps, 10000)
                /\ paid.fee_paid + seller_share = price
                /\ paid.price_paid = price

FeeExamples ==
    \A pair \in DOMAIN purchases :
        LET paid == purchases[pair]
            fee_bps == marketplace[MARKETPLACE].fee_bps
        IN  /\ (paid.price_paid = 1 /\ fee_bps = 5000) => paid.fee_paid = 0
            /\ (paid.price_paid = 1000000 /\ fee_bps = 250) => paid.fee_paid = 25000

\* C1: a successful purchase_skill of a skill priced price > 0 under a fee rate
\* in 0..5000 records price_paid = price and fee_paid = floor(price * fee_bps /
\* 10000), and the seller's share (what total_earnings grows by) plus the fee is
\* the price exactly; price 1 at 5000 bps has fee 0, price 1_000_000 at 250 bps
\* has fee 25_000.
C1_FeeSplit == []FeeExamples /\ [][PurchaseSplitsPrice]_vars

\* Two purchases at 5000 bps: price 1 with fee 0, and price 3 with fee 1 (the
\* floor of 1.5).
C1_Witness ==
    /\ Called("purchase_skill", OK)
    /\ marketplace[MARKETPLACE].fee_bps = 5000
    /\ \E a, b \in DOMAIN purchases :
          /\ purchases[a].price_paid = 1 /\ purchases[a].fee_paid = 0
          /\ purchases[b].price_paid = 3 /\ purchases[b].fee_paid = 1

(***************************************************************************)
(* C9                                                                      *)
(***************************************************************************)
PurchaseFrame ==
    Purchased =>
        \E pair \in DOMAIN purchases' \ DOMAIN purchases :
            LET buyer == pair[1]
                sid == pair[2]
                p == skills[sid].price_usdc
                f == purchases'[pair].fee_paid
                seller == skills[sid].publisher
            IN  /\ IsFloor(f, p * marketplace[MARKETPLACE].fee_bps, 10000)
                /\ purchases' = purchases @@ (pair :>
                        [buyer |-> buyer, skill |-> sid, price_paid |-> p, fee_paid |-> f,
                         rating |-> 0])
                /\ skills' = [skills EXCEPT ![sid].total_purchases = @ + 1,
                                            ![sid].total_revenue = @ + p]
                /\ agents' = [agents EXCEPT ![seller].skills_sold = @ + 1,
                                            ![seller].total_earnings = @ + (p - f)]
                /\ marketplace' = [marketplace EXCEPT
                                      ![MARKETPLACE].total_purchases = @ + 1,
                                      ![MARKETPLACE].total_volume_usdc = @ + p]

\* C9: a successful purchase_skill at price p and fee f = floor(p * fee_bps /
\* 10000) adds one Purchase record (price_paid p, fee_paid f, rating 0), adds 1
\* and p to the skill's total_purchases and total_revenue, 1 and p - f to the
\* seller agent's skills_sold and total_earnings, 1 and p to the marketplace's
\* total_purchases and total_volume_usdc, and changes no other record or field.
C9_PurchaseFrame == [][PurchaseFrame]_vars

\* The first purchase at 250 bps and price 1_000_000: fee 25_000, the seller
\* has earned 975_000, the volume is 1_000_000.
C9_Witness ==
    /\ Called("purchase_skill", OK)
    /\ marketplace[MARKETPLACE].fee_bps = 250
    /\ marketplace[MARKETPLACE].total_volume_usdc = 1000000
    /\ \E pair \in DOMAIN purchases :
          /\ purchases[pair].price_paid = 1000000
          /\ purchases[pair].fee_paid = 25000
          /\ agents[skills[pair[2]].publisher].total_earnings = 975000
          /\ \E other \in DOMAIN agents : other # skills[pair[2]].publisher

(***************************************************************************)
(* C2                                                                      *)
(***************************************************************************)
SecondPurchaseFails ==
    \A pair \in DOMAIN purchases : \A accounts \in AnyAccounts :
        LET r == PurchaseOutcome(pair[1], pair[2], accounts)
        IN  r.err = "AccountAlreadyInUse" /\ r.st = State

PurchasesCountedOnce ==
    \A sid \in DOMAIN skills :
        skills[sid].total_purchases =
            Cardinality({pair \in DOMAIN purchases : pair[2] = sid})

\* C2: a purchase_skill for a buyer and skill that already have a Purchase
\* record fails at the creation of the record, whatever token accounts are
\* passed, and leaves the record, every counter and every balance as they were;
\* each skill has been bought once per Purchase record of it.
C2_OnePurchasePerPair == SecondPurchaseFails /\ PurchasesCountedOnce

C2_Witness ==
    /\ Called("purchase_skill", "AccountAlreadyInUse")
    /\ DOMAIN purchases # {}

(***************************************************************************)
(* C6                                                                      *)
(***************************************************************************)
\* C6 as claimed: purchase_skill on an inactive skill fails with the not-active
\* error, invokes no transfer and changes nothing.
C6_InactiveFailsNotActive ==
    \A sid \in DOMAIN skills : \A buyer \in Keys : \A accounts \in AnyAccounts :
        ~skills[sid].is_active =>
            LET r == PurchaseOutcome(buyer, sid, accounts)
            IN  r.err = "SkillNotActive" /\ r.transfers = <<>> /\ r.st = State

\* C6, amended: purchase_skill on an inactive skill fails, invokes no transfer
\* and changes nothing; the error is the not-active error unless the buyer
\* already has a Purchase record of the skill, and then the creation of the
\* record fails first.
C6_InactiveFails ==
    \A sid \in DOMAIN skills : \A buyer \in Keys : \A accounts \in AnyAccounts :
        ~skills[sid].is_active =>
            LET r == PurchaseOutcome(buyer, sid, accounts)
            IN  /\ r.err = IF <<buyer, sid>> \in DOMAIN purchases
                           THEN "AccountAlreadyInUse" ELSE "SkillNotActive"
                /\ r.transfers = <<>>
                /\ r.st = State

C6_Witness ==
    /\ Called("purchase_skill", "SkillNotActive")
    /\ last.invoked = 0
    /\ \E sid \in DOMAIN skills : ~skills[sid].is_active

(***************************************************************************)
(* C7                                                                      *)
(***************************************************************************)
OnlyPublisherUpdates ==
    \A sid \in DOMAIN skills : \A caller \in Keys :
        caller # skills[sid].publisher =>
            /\ \A new_price \in 0..3 :
                  LET r == Run(State, update_skill_price(State, clock, caller, sid, new_price))
                  IN  r.err = "Unauthorized" /\ r.st = State
            /\ LET r == Run(State, deactivate_skill(State, clock, caller, sid))
               IN  r.err = "Unauthorized" /\ r.st = State

PriceAndActivityChangeByUpdate ==
    \A sid \in DOMAIN skills :
        /\ sid \in DOMAIN skills'
        /\ skills'[sid].price_usdc # skills[sid].price_usdc =>
              last'.op = "update_skill_price" /\ last'.err = OK
        /\ skills'[sid].is_active # skills[sid].is_active =>
              last'.op = "deactivate_skill" /\ last'.err = OK

\* C7: update_skill_price and deactivate_skill called by anyone but the skill's
\* publisher fail with Unauthorized and leave every account as it was; a skill's
\* price_usdc changes only in a successful update_skill_price and its is_active
\* only in a successful deactivate_skill.
C7_PublisherOnly == []OnlyPublisherUpdates /\ [][PriceAndActivityChangeByUpdate]_vars

C7_Witness ==
    /\ Called("update_skill_price", "Unauthorized")
    /\ DOMAIN skills # {}

(***************************************************************************)
(* C8                                                                      *)
(***************************************************************************)
\* Every counter of the accounts is an unsigned 64-bit integer.
CountersInRange ==
    /\ \A m \in DOMAIN marketplace :
          /\ marketplace[m].total_skills \in 0..U64_MAX
          /\ marketplace[m].total_purchases \in 0..U64_MAX
          /\ marketplace[m].total_volume_usdc \in 0..U64_MAX
    /\ \A a \in DOMAIN agents :
          /\ agents[a].skills_published \in 0..U64_MAX
          /\ agents[a].skills_sold \in 0..U64_MAX
          /\ agents[a].total_earnings \in 0..U64_MAX
          /\ agents[a].total_ratings \in 0..U64_MAX
    /\ \A s \in DOMAIN skills :
          /\ skills[s].total_purchases \in 0..U64_MAX
          /\ skills[s].total_revenue \in 0..U64_MAX
          /\ skills[s].total_ratings \in 0..U64_MAX

\* The sum would not fit an unsigned 64-bit integer.
Exceeds(a, b) == a + b > U64_MAX

OverflowFails ==
    /\ CountersInRange
    /\ \A sid \in DOMAIN skills : \A buyer \in Keys : \A accounts \in AnyAccounts :
          LET skill == skills[sid]
              agent == agents[skill.publisher]
              m == marketplace[MARKETPLACE]
              p == skill.price_usdc
              r == PurchaseOutcome(buyer, sid, accounts)
          IN  (\/ Exceeds(skill.total_purchases, 1) \/ Exceeds(skill.total_revenue, p)
               \/ Exceeds(agent.skills_sold, 1)
               \/ Exceeds(agent.total_earnings, p - fee(p, m.fee_bps))
               \/ Exceeds(m.total_purchases, 1) \/ Exceeds(m.total_volume_usdc, p))
              => r.err # OK /\ r.st = State
    /\ \A publisher \in DOMAIN agents : \A skill_id \in SkillIds : \A price \in {1, 3} :
          LET r == Run(State, register_skill(State, clock, publisher, skill_id, 64, 256,
                                             price, 200))
          IN  (\/ Exceeds(agents[publisher].skills_published, 1)
               \/ MARKETPLACE \in DOMAIN marketplace
                    /\ Exceeds(marketplace[MARKETPLACE].total_skills, 1))
              => r.err # OK /\ r.st = State
    /\ \A pair \in DOMAIN purchases : \A rating \in 1..5 :
          LET skill == skills[pair[2]]
              r == Run(State, rate_skill(State, pair[1], pair[2], rating))
          IN  (\/ Exceeds(skill.total_ratings, 1)
               \/ Exceeds(agents[skill.publisher].total_ratings, 1))
              => r.err # OK /\ r.st = State

NoCounterDecreases ==
    /\ \A m \in DOMAIN marketplace :
          /\ marketplace'[m].total_skills >= marketplace[m].total_skills
          /\ marketplace'[m].total_purchases >= marketplace[m].total_purchases
          /\ marketplace'[m].total_volume_usdc >= marketplace[m].total_volume_usdc
    /\ \A a \in DOMAIN agents :
          /\ agents'[a].skills_published >= agents[a].skills_published
          /\ agents'[a].skills_sold >= agents[a].skills_sold
          /\ agents'[a].total_earnings >= agents[a].total_earnings
          /\ agents'[a].total_ratings >= agents[a].total_ratings
    /\ \A s \in DOMAIN skills :
          /\ skills'[s].total_purchases >= skills[s].total_purchases
          /\ skills'[s].total_revenue >= skills[s].total_revenue
          /\ skills'[s].total_ratings >= skills[s].total_ratings

\* C8: register_skill, purchase_skill and rate_skill fail, changing nothing,
\* when one of their additions would exceed the largest unsigned 64-bit value;
\* every counter stays in range and none is ever smaller after a step.
C8_NoWrap == []OverflowFails /\ [][NoCounterDecreases]_vars

\* A purchase whose addition to total_revenue would overflow has panicked.
C8_Witness ==
    /\ Called("purchase_skill", "Panic")
    /\ \E sid \in DOMAIN skills : Exceeds(skills[sid].total_revenue, skills[sid].price_usdc)

(***************************************************************************)
(* C10                                                                     *)
(***************************************************************************)
\* The source is not the buyer's, or holds too little for the seller's share or,
\* after that transfer, for the fee.
TransferFails(buyer, sid, accounts) ==
    LET p == skills[sid].price_usdc
        f == fee(p, marketplace[MARKETPLACE].fee_bps)
        source == accounts[1]
        left == IF accounts[2] = source THEN balances[source] ELSE balances[source] - (p - f)
    IN  \/ source # buyer
        \/ balances[source] < p - f
        \/ f > 0 /\ left < f

\* C10: a purchase_skill one of whose transfers fails returns an error and
\* leaves every account and every token balance as it was: no Purchase record
\* is added, no counter changes, the first transfer is not kept.
C10_TransferFailureAborts ==
    \A sid \in DOMAIN skills : \A buyer \in Keys : \A accounts \in AnyAccounts :
        TransferFails(buyer, sid, accounts) =>
            LET r == PurchaseOutcome(buyer, sid, accounts)
            IN  r.err # OK /\ r.st = State

\* The fee transfer failed after the transfer to the seller had gone through.
C10_Witness ==
    /\ Called("purchase_skill", "InsufficientFunds")
    /\ last.invoked = 2
    /\ \E sid \in DOMAIN skills : \E buyer \in Keys :
          \E accounts \in PurchaseAccounts(buyer, sid) :
            LET r == PurchaseReturn(buyer, sid, accounts)
            IN  /\ r.err = "InsufficientFunds"
                /\ Len(r.transfers) = 2
                /\ r.st.balances # balances
                /\ <<buyer, sid>> \in DOMAIN r.st.purchases
                /\ <<buyer, sid>> \notin DOMAIN purchases

(***************************************************************************)
(* C3                                                                      *)
(***************************************************************************)
SecondRatingFails ==
    \A pair \in DOMAIN purchases :
        /\ purchases[pair].rating \in 0..5
        /\ purchases[pair].rating # 0 =>
              \A rating \in 1..5 :
                  LET r == Run(State, rate_skill(State, pair[1], pair[2], rating))
                  IN  r.err = "AlreadyRated" /\ r.st = State

RatingWrittenOnce ==
    /\ \A pair \in DOMAIN purchases' \ DOMAIN purchases : purchases'[pair].rating = 0
    /\ \A pair \in DOMAIN purchases :
          /\ pair \in DOMAIN purchases'
          /\ purchases[pair].rating # 0 => purchases'[pair].rating = purchases[pair].rating
          /\ purchases'[pair].rating # purchases[pair].rating =>
                Rated /\ purchases'[pair].rating \in 1..5

\* C3: a Purchase record's rating is 0 when the record is created, changes only
\* in a successful rate_skill, to a value in 1..5, and never changes once it is
\* not 0; rate_skill on a rated purchase fails with AlreadyRated and leaves every
\* account (the skill's and the agent's averages and counts too) as it was.
C3_RatingWriteOnce == []SecondRatingFails /\ [][RatingWrittenOnce]_vars

C3_Witness ==
    /\ Called("rate_skill", "AlreadyRated")
    /\ \E pair \in DOMAIN purchases : purchases[pair].rating \in 1..5

(***************************************************************************)
(* C4                                                                      *)
(***************************************************************************)
RatingFoldedIn ==
    Rated =>
        \E pair \in DOMAIN purchases :
            LET r == purchases'[pair].rating
                sid == pair[2]
                seller == skills[sid].publisher
            IN  /\ purchases[pair].rating = 0
                /\ r \in 1..5
                /\ skills'[sid].total_ratings = skills[sid].total_ratings + 1
                /\ IsFloor(skills'[sid].avg_rating,
                           skills[sid].avg_rating * skills[sid].total_ratings + r,
                           skills'[sid].total_ratings)
                /\ agents'[seller].total_ratings = agents[seller].total_ratings + 1
                /\ IsFloor(agents'[seller].reputation_score,
                           agents[seller].reputation_score * agents[seller].total_ratings + r,
                           agents'[seller].total_ratings)

\* The ratings a skill has received, as the set of <<buyer, rating>>.
RatingsOf(sid) ==
    {<<pair[1], purchases[pair].rating>> :
        pair \in {q \in DOMAIN purchases : q[2] = sid /\ purchases[q].rating # 0}}

RatingExample ==
    \A sid \in DOMAIN skills :
        LET given == {br[2] : br \in RatingsOf(sid)}
            n == Cardinality(RatingsOf(sid))
        IN  /\ (n = 1 /\ given = {5}) => skills[sid].avg_rating = 5
            /\ (n = 2 /\ given = {5, 1}) => skills[sid].avg_rating = 3
            /\ (n = 3 /\ given = {5, 1, 4}) => skills[sid].avg_rating = 3

\* C4: a successful rate_skill with rating r in 1..5 adds 1 to the skill's
\* total_ratings and to the seller agent's, and sets avg_rating and
\* reputation_score to floor((old average * old count + r) / new count); a
\* skill rated 5, 1 and 4 has avg_rating 5, then 3, then 3.
C4_RunningAverage == []RatingExample /\ [][RatingFoldedIn]_vars

\* Three buyers have rated the skill 5, 1 and 4.
C4_Witness ==
    /\ Called("rate_skill", OK)
    /\ \E sid \in DOMAIN skills :
          /\ {br[2] : br \in RatingsOf(sid)} = {5, 1, 4}
          /\ skills[sid].total_ratings = 3
          /\ skills[sid].avg_rating = 3
          /\ agents[skills[sid].publisher].reputation_score = 3

(***************************************************************************)
(* C5                                                                      *)
(***************************************************************************)
RECURSIVE SumOfRatings(_)
SumOfRatings(pairs) ==
    IF pairs = {} THEN 0
    ELSE LET pair == CHOOSE q \in pairs : TRUE
         IN  purchases[pair].rating + SumOfRatings(pairs \ {pair})

\* C5 as claimed: an agent with ratings has reputation_score = floor(sum of the
\* ratings of the purchases of its skills / total_ratings).
C5_ReputationIsMean ==
    \A a \in DOMAIN agents :
        agents[a].total_ratings > 0 =>
            IsFloor(agents[a].reputation_score,
                    SumOfRatings({pair \in DOMAIN purchases : skills[pair[2]].publisher = a}),
                    agents[a].total_ratings)

(***************************************************************************)
(* C11                                                                     *)
(***************************************************************************)
\* What the token accounts hold after price has left the buyer's account, the
\* seller's share has reached the publisher's and the fee the treasury.
BalancesAfterSale(buyer, seller, price, fee_paid) ==
    [a \in TokenAccounts |->
        balances[a] - (IF a = buyer THEN price ELSE 0)
                    + (IF a = seller THEN price - fee_paid ELSE 0)
                    + (IF a = TREASURY THEN fee_paid ELSE 0)]

PurchaseMovesValue ==
    Purchased =>
        \E pair \in DOMAIN purchases' \ DOMAIN purchases :
            LET paid == purchases'[pair]
            IN  /\ balances' = BalancesAfterSale(pair[1], skills[pair[2]].publisher,
                                                 paid.price_paid, paid.fee_paid)
                /\ last'.invoked = IF paid.fee_paid > 0 THEN 2 ELSE 1

\* C11 as claimed: a successful purchase_skill moves the seller's share from the
\* buyer's token account to the publisher's and the fee from the buyer's to the
\* treasury's, invoking the second transfer exactly when the fee is positive;
\* the buyer's balance falls by the price and no other balance changes.
C11_PurchaseMovesValue == [][PurchaseMovesValue]_vars

(***************************************************************************)
(* C12                                                                     *)
(***************************************************************************)
\* No account is closed: a record that exists exists after every step.
RecordsKept ==
    /\ DOMAIN marketplace \subseteq DOMAIN marketplace'
    /\ DOMAIN agents \subseteq DOMAIN agents'
    /\ DOMAIN skills \subseteq DOMAIN skills'
    /\ DOMAIN purchases \subseteq DOMAIN purchases'

\* C12: from one state to the next no record disappears and none of the
\* counters decreases: the marketplace's total_skills, total_purchases and
\* total_volume_usdc, an agent's skills_published, skills_sold, total_earnings
\* and total_ratings, a skill's total_purchases, total_revenue and total_ratings.
C12_CountersMonotone == [][RecordsKept /\ NoCounterDecreases]_vars

\* Every one of the ten counters has grown.
C12_Witness ==
    /\ MARKETPLACE \in DOMAIN marketplace
    /\ marketplace[MARKETPLACE].total_skills > 0
    /\ marketplace[MARKETPLACE].total_purchases > 0
    /\ marketplace[MARKETPLACE].total_volume_usdc > 0
    /\ \E a \in DOMAIN agents :
          /\ agents[a].skills_published > 1
          /\ agents[a].skills_sold > 1
          /\ agents[a].total_earnings > 1
          /\ agents[a].total_ratings > 1
    /\ \E s \in DOMAIN skills :
          /\ skills[s].total_purchases > 0
          /\ skills[s].total_revenue > 0
          /\ skills[s].total_ratings > 0

(***************************************************************************)
(* C13                                                                     *)
(***************************************************************************)
\* A successful deactivate_skill leaves one skill inactive, stamped with the
\* time, and changes nothing else of the catalogue.
DeactivateSetsInactive ==
    (last'.op = "deactivate_skill" /\ last'.err = OK) =>
        \E sid \in DOMAIN skills :
            skills' = [skills EXCEPT ![sid].is_active = FALSE, ![sid].updated_at = clock]

InactiveStaysInactive ==
    \A sid \in DOMAIN skills :
        ~skills[sid].is_active =>
            /\ sid \in DOMAIN skills'
            /\ ~skills'[sid].is_active
            /\ skills'[sid].total_purchases = skills[sid].total_purchases
            /\ skills'[sid].total_revenue = skills[sid].total_revenue
            /\ \A pair \in DOMAIN purchases' \ DOMAIN purchases : pair[2] # sid

\* C13: a successful deactivate_skill sets the skill's is_active to false, and
\* from a state where a skill is inactive every step leaves it inactive, adds
\* no Purchase record of it and leaves its total_purchases and total_revenue as
\* they were.
C13_DeactivationIsFinal == [][DeactivateSetsInactive /\ InactiveStaysInactive]_vars

\* A purchase of a deactivated skill that had been bought before was turned
\* down, after its publisher had repriced it.
C13_Witness ==
    /\ Called("purchase_skill", "SkillNotActive")
    /\ \E sid \in DOMAIN skills :
          /\ ~skills[sid].is_active
          /\ skills[sid].total_purchases = 1
          /\ skills[sid].price_usdc = 3
          /\ skills[sid].total_revenue = 1

(***************************************************************************)
(* C14                                                                     *)
(***************************************************************************)
InitializeOnce ==
    /\ \A m \in DOMAIN marketplace : m = MARKETPLACE /\ marketplace[m].fee_bps \in 0..5000
    /\ \A authority \in Keys : \A fee_bps \in FeeBpsInputs :
          LET r == Run(State, initialize_marketplace(State, authority, fee_bps))
          IN  /\ MARKETPLACE \in DOMAIN marketplace =>
                    r.err = "AccountAlreadyInUse" /\ r.st = State
              /\ (MARKETPLACE \notin DOMAIN marketplace /\ fee_bps > 5000) =>
                    r.err = "FeeTooHigh" /\ r.st = State
              /\ (MARKETPLACE \notin DOMAIN marketplace /\ fee_bps <= 5000) =>
                    /\ r.err = OK
                    /\ r.st = [State EXCEPT !.marketplace = MARKETPLACE :>
                                  [authority |-> authority, fee_bps |-> fee_bps,
                                   total_skills |-> 0, total_purchases |-> 0,
                                   total_volume_usdc |-> 0]]

ConfigurationFixed ==
    /\ \A m \in DOMAIN marketplace :
          /\ m \in DOMAIN marketplace'
          /\ marketplace'[m].authority = marketplace[m].authority
          /\ marketplace'[m].fee_bps = marketplace[m].fee_bps
    /\ DOMAIN marketplace' # DOMAIN marketplace =>
          last'.op = "initialize_marketplace" /\ last'.err = OK

\* C14: initialize_marketplace fails, changing nothing, when the marketplace
\* exists and when fee_bps > 5000; otherwise it creates the one marketplace
\* record with the authority and fee_bps given and zero counters.  A marketplace
\* that exists has 0 <= fee_bps <= 5000, and no step changes its authority or
\* its fee_bps or removes it.
C14_MarketplaceOnce == []InitializeOnce /\ [][ConfigurationFixed]_vars

\* A second initialize_marketplace was turned down on a marketplace in use.
C14_Witness ==
    /\ Called("initialize_marketplace", "AccountAlreadyInUse")
    /\ marketplace[MARKETPLACE].fee_bps = 5000
    /\ marketplace[MARKETPLACE].total_purchases > 0

(***************************************************************************)
(* C15                                                                     *)
(***************************************************************************)
SkillsOf(owner) == {sid \in DOMAIN skills : skills[sid].publisher = owner}

SkillsCounted ==
    /\ \A a \in DOMAIN agents :
          agents[a].skills_published >= Cardinality(SkillsOf(agents[a].owner))
    /\ \A sid \in DOMAIN skills : skills[sid].publisher \in DOMAIN agents

SkillRegistered ==
    /\ DOMAIN skills' # DOMAIN skills => last'.op = "register_skill" /\ last'.err = OK
    /\ (last'.op = "register_skill" /\ last'.err = OK) =>
          \E sid \in DOMAIN skills' \ DOMAIN skills :
              LET publisher == skills'[sid].publisher
              IN  /\ DOMAIN skills' = DOMAIN skills \cup {sid}
                  /\ \A other \in DOMAIN skills : skills'[other] = skills[other]
                  /\ publisher \in DOMAIN agents
                  /\ agents[publisher].owner = publisher
                  /\ agents' = [agents EXCEPT ![publisher].skills_published = @ + 1]
                  /\ marketplace' = [marketplace EXCEPT ![MARKETPLACE].total_skills = @ + 1]

\* C15: every agent's skills_published is at least the number of Skill records
\* published by its owner, and every Skill record's publisher owns an Agent
\* record; a Skill record appears only in a successful register_skill, which
\* creates one record, adds 1 to the publisher's agent's skills_published and 1
\* to the marketplace's total_skills, and changes nothing else of them.
C15_SkillsPublished == []SkillsCounted /\ [][SkillRegistered]_vars

\* One agent has registered both skills, beside another agent with none.
C15_Witness ==
    /\ Called("register_skill", OK)
    /\ marketplace[MARKETPLACE].total_skills = 2
    /\ \E a, b \in DOMAIN agents :
          /\ agents[a].skills_published = 2
          /\ Cardinality(SkillsOf(a)) = 2
          /\ agents[b].skills_published = 0

FailureChangesNothing ==
    last'.err # OK => UNCHANGED <<marketplace, agents, skills, purchases, balances>>

PurchaseCheckOrder ==
    \A sid \in DOMAIN skills : \A buyer \in Keys : \A accounts \in AnyAccounts :
        LET r == PurchaseReturn(buyer, sid, accounts)
            f == fee(skills[sid].price_usdc, marketplace[MARKETPLACE].fee_bps)
        IN  /\ r.err = "SkillNotActive" => r.transfers = <<>> /\ r.st = State
            /\ r.err = "Panic" =>
                  /\ Len(r.transfers) = IF f > 0 THEN 2 ELSE 1
                  /\ <<buyer, sid>> \in DOMAIN r.st.purchases
                  /\ Run(State, r).st = State

Deactivated(st, sid, now) ==
    Run(st, deactivate_skill(st, now, st.skills[sid].publisher, sid))

\* C17: deactivate_skill called by the publisher returns no error on an active
\* and on an inactive skill; called again (at t2) after a deactivation (at t1)
\* it leaves the accounts as one deactivation at t2 leaves them: the skill
\* inactive, updated_at the time of the call and nothing else changed, so the
\* same accounts as after the first call when the time has not moved.
C17_DeactivateIdempotent ==
    \A sid \in DOMAIN skills : \A t1, t2 \in 0..MaxClock :
        LET first == Deactivated(State, sid, t1)
            second == Deactivated(first.st, sid, t2)
        IN  /\ first.err = OK
            /\ second.err = OK
            /\ ~second.st.skills[sid].is_active
            /\ second.st = [first.st EXCEPT !.skills[sid].updated_at = t2]
            /\ second.st = Deactivated(State, sid, t2).st
            /\ t1 = t2 => second.st = first.st
            /\ ~skills[sid].is_active =>
                  first.st = [State EXCEPT !.skills[sid].updated_at = t1]

\* deactivate_skill has succeeded on one skill that was bought before, while
\* the other skill is still on sale.
C17_Witness ==
    /\ Called("deactivate_skill", OK)
    /\ \E sid, other \in DOMAIN skills :
          /\ ~skills[sid].is_active
          /\ skills[sid].total_purchases = 1
          /\ skills[sid].updated_at = MaxClock
          /\ skills[other].is_active

(***************************************************************************)
(* C18                                                                     *)
(***************************************************************************)
\* The sum of f[x] over the x in S
RECURSIVE SumOver(_, _)
SumOver(f, S) ==
    IF S = {} THEN 0
    ELSE LET x == CHOOSE y \in S : TRUE
         IN  f[x] + SumOver(f, S \ {x})

\* The Purchase records of the skills an agent's owner published.
SalesOf(owner) == {pair \in DOMAIN purchases : skills[pair[2]].publisher = owner}

\* C18: the marketplace's total_purchases is the number of Purchase records and
\* the sum of the skills' total_purchases; its total_volume_usdc is the sum of
\* price_paid over the Purchase records and the sum of the skills'
\* total_revenue; every agent's total_earnings is the sum of price_paid -
\* fee_paid over the Purchase records of the skills it published.
C18_LedgerConservation ==
    /\ MARKETPLACE \notin DOMAIN marketplace => DOMAIN purchases = {} /\ DOMAIN skills = {}
    /\ MARKETPLACE \in DOMAIN marketplace =>
          LET m == marketplace[MARKETPLACE]
          IN  /\ m.total_purchases = Cardinality(DOMAIN purchases)
              /\ m.total_purchases =
                    SumOver([s \in DOMAIN skills |-> skills[s].total_purchases], DOMAIN skills)
              /\ m.total_volume_usdc =
                    SumOver([p \in DOMAIN purchases |-> purchases[p].price_paid],
                            DOMAIN purchases)
              /\ m.total_volume_usdc =
                    SumOver([s \in DOMAIN skills |-> skills[s].total_revenue], DOMAIN skills)
    /\ \A a \in DOMAIN agents :
          agents[a].total_earnings =
              SumOver([p \in SalesOf(a) |-> purchases[p].price_paid - purchases[p].fee_paid],
                      SalesOf(a))

\* One agent sold a skill at 1 and, after a price update, a skill at 3 with a
\* fee of 1: volume 4, earnings 3.
C18_Witness ==
    /\ MARKETPLACE \in DOMAIN marketplace
    /\ marketplace[MARKETPLACE].total_volume_usdc = 4
    /\ \E a \in DOMAIN agents :
          /\ Cardinality(SalesOf(a)) = 2
          /\ agents[a].total_earnings = 3
          /\ \E s \in SkillsOf(a) : skills[s].total_revenue = 3 /\ skills[s].price_usdc = 3
          /\ \E s \in SkillsOf(a) : skills[s].total_revenue = 1

(***************************************************************************)
(* C19                                                                     *)
(***************************************************************************)
RatingsCounted ==
    /\ \A sid \in DOMAIN skills :
          /\ skills[sid].total_ratings =
                Cardinality({pair \in DOMAIN purchases :
                                pair[2] = sid /\ purchases[pair].rating # 0})
          /\ skills[sid].total_ratings <= skills[sid].total_purchases
    /\ \A a \in DOMAIN agents :
          agents[a].total_ratings =
              SumOver([s \in SkillsOf(a) |-> skills[s].total_ratings], SkillsOf(a))

OnlyBuyersRate ==
    \A buyer \in Keys : \A sid \in SkillIds : \A rating \in RatingInputs :
        LET r == Run(State, rate_skill(State, buyer, sid, rating))
        IN  /\ <<buyer, sid>> \notin DOMAIN purchases =>
                  r.err = "AccountNotInitialized" /\ r.st = State
            /\ (<<buyer, sid>> \in DOMAIN purchases /\ rating \notin 1..5) =>
                  r.err = "InvalidRating" /\ r.st = State

\* C19: a skill's total_ratings is the number of its Purchase records with a
\* rating other than 0, so at most its total_purchases, and an agent's
\* total_ratings is the sum of total_ratings over the skills it published;
\* rate_skill fails and changes nothing when the caller has no Purchase record
\* of the skill and when the rating is not in 1..5.
C19_OnlyBuyersRate == RatingsCounted /\ OnlyBuyersRate

\* A rating of 6 was turned down after both skills of an agent were rated once.
C19_Witness ==
    /\ Called("rate_skill", "InvalidRating")
    /\ \E a \in DOMAIN agents :
          /\ agents[a].total_ratings = 2
          /\ \A s \in SkillIds :
                s \in SkillsOf(a) /\ skills[s].total_ratings = 1 /\ skills[s].total_purchases = 1

(***************************************************************************)
(* C20                                                                     *)
(***************************************************************************)
\* An average is 0 exactly when nothing was counted, and else one of 1..5.
InRatingRange(average, count) ==
    /\ average = 0 <=> count = 0
    /\ count # 0 => average \in 1..5

\* The u64 quotients of lines 201-203 and 207-210, before the cast to u8.
NextAverageFits ==
    \A pair \in DOMAIN purchases : \A rating \in 1..5 :
        LET skill == skills[pair[2]]
            agent == agents[skill.publisher]
            average == (skill.avg_rating * skill.total_ratings + rating)
                            \div (skill.total_ratings + 1)
            reputation == (agent.reputation_score * agent.total_ratings + rating)
                            \div (agent.total_ratings + 1)
        IN  average \in 1..5 /\ reputation \in 1..5

\* C20: every skill has avg_rating = 0 exactly when total_ratings = 0 and else
\* 1 <= avg_rating <= 5, every agent the same of reputation_score and
\* total_ratings, and the average the next rating in 1..5 produces is in 1..5
\* before it is narrowed to 8 bits, so the narrowing drops nothing.
C20_AverageRange ==
    /\ \A sid \in DOMAIN skills :
          InRatingRange(skills[sid].avg_rating, skills[sid].total_ratings)
    /\ \A a \in DOMAIN agents :
          InRatingRange(agents[a].reputation_score, agents[a].total_ratings)
    /\ NextAverageFits

\* Three ratings of 1, 1 and 5: the average is floor(7 / 3) = 2.
C20_Witness ==
    /\ Called("rate_skill", OK)
    /\ \E sid \in DOMAIN skills :
          /\ {br[2] : br \in RatingsOf(sid)} = {1, 5}
          /\ skills[sid].total_ratings = 3
          /\ skills[sid].avg_rating \in 1..5
          /\ agents[skills[sid].publisher].reputation_score \in 1..5
          /\ agents[skills[sid].publisher].total_ratings = 3

====
